---- MODULE Spec2Model ----
(***************************************************************************)
(* Model of velocity_estimator.VelocityEstimator (joycon_teleop) and of    *)
(* the two instances that plot_velocity.VelocityPlotter owns.              *)
(*                                                                         *)
(* Numbers.  The program computes with Python floats.  The model computes  *)
(* with exact rationals <<n, d>> (d > 0, lowest terms), so 0.99 is 99/100  *)
(* and 9.8 is 49/5; rounding of binary floating point is not modelled.     *)
(*                                                                         *)
(* Objects.  self.velocity is a SimpleNamespace that update mutates in     *)
(* place and self.init_samples is a list that initialize_gravity appends   *)
(* to, so both live in heaps (vecs, lists) and the estimator holds their   *)
(* addresses.  prev_accel and gravity_offset are rebound to fresh objects  *)
(* that nothing mutates, so they are held by value.  A value returned to   *)
(* the caller is a handle: either a reference to a heap vector or a fresh  *)
(* object owned by the caller.                                             *)
(*                                                                         *)
(* Two specifications.  Spec drives the two estimators with arbitrary      *)
(* samples and time steps.  SpecPlot is VelocityPlotter.collect_data: the  *)
(* loop that reads both controllers, updates both estimators with          *)
(* self.dt, appends to the thirteen series and sleeps, with its exception  *)
(* handlers and a clock that advances in the sleeps; SpecPlotFair adds     *)
(* that the interpreter keeps running.                                     *)
(***************************************************************************)
EXTENDS Integers, Sequences, FiniteSets, TLC

VARIABLES est, vecs, lists, calls, log, last,
          pc, ip, collecting, start_time, now, loc, series, outcome, tick0

\* the two estimators, the objects they hold, and the record of the calls
estvars == <<est, vecs, lists, calls, log, last>>

\* the VelocityPlotter that owns them, its clock and its position in
\* collect_data
plotvars == <<pc, ip, collecting, start_time, now, loc, series, outcome, tick0>>

vars == <<estvars, plotvars>>

(***************************************************************************)
(* Bounds of the model.                                                    *)
(***************************************************************************)
\* total number of update calls made on the two estimators together
MaxCalls == 6
\* largest common denominator the 32-bit integers of the checker can carry
\* through one integration step
MaxDen == 1000000

(***************************************************************************)
(* Exact rational arithmetic.                                              *)
(***************************************************************************)
Abs(n) == IF n < 0 THEN -n ELSE n

RECURSIVE GCD(_, _)
GCD(a, b) == IF b = 0 THEN a ELSE GCD(b, a % b)

LCM(a, b) == (a \div GCD(a, b)) * b

Norm(n, d) ==
    LET g == GCD(Abs(n), d) IN <<n \div g, d \div g>>

Rat(n, d) == Norm(n, d)

Add(a, b) ==
    LET l == LCM(a[2], b[2])
    IN  Norm(a[1] * (l \div a[2]) + b[1] * (l \div b[2]), l)

Neg(a) == <<-a[1], a[2]>>

Sub(a, b) == Add(a, Neg(b))

Mul(a, b) ==
    LET g1 == GCD(Abs(a[1]), b[2])
        g2 == GCD(Abs(b[1]), a[2])
    IN  Norm((a[1] \div g1) * (b[1] \div g2), (a[2] \div g2) * (b[2] \div g1))

DivInt(a, k) == Mul(a, <<1, k>>)

Less(a, b) == a[1] * b[2] < b[1] * a[2]

Zero == <<0, 1>>

Vec(x, y, z) == [x |-> x, y |-> y, z |-> z]

ZeroVec == Vec(Zero, Zero, Zero)

(***************************************************************************)
(* Program constants.                                                      *)
(***************************************************************************)
\* samples: int = 3, the default that update relies on
N_CAL == 3
\* decay = 0.99
DECAY == <<99, 100>>
\* max_vel = 2.0
V_MAX == <<2, 1>>

\* the two instances VelocityPlotter constructs
Ids == {"L", "R"}

\* None, and a held object, of an attribute that is rebound but never mutated
None == <<>>
Some(v) == <<v>>

(***************************************************************************)
(* Returned values: a reference to a heap vector, or a fresh object.       *)
(***************************************************************************)
Ref(a) == [kind |-> "ref", addr |-> a, val |-> ZeroVec]

Fresh(v) == [kind |-> "new", addr |-> 0, val |-> v]

\* what the caller reads from a returned value in machine state m
Read(m, h) == IF h.kind = "ref" THEN m.vecs[h.addr] ELSE h.val

(***************************************************************************)
(* VelocityEstimator.__init__                                              *)
(***************************************************************************)
\* SimpleNamespace(x=0.0, y=0.0, z=0.0): a new object per constructor call
VelocityAddr(e) == IF e = "L" THEN 1 ELSE 2

\* a variant with one list for the whole class
InitSamplesAddr_shared(e) == 1

\* []: a new list per constructor call
InitSamplesAddr(e) == IF e = "L" THEN 1 ELSE 2

VelocityEstimator(e) ==
    [velocity       |-> VelocityAddr(e),
     prev_accel     |-> Some(ZeroVec),
     is_initialized |-> FALSE,
     sample_count   |-> 0,
     gravity_offset |-> None,
     init_samples   |-> InitSamplesAddr(e)]

(***************************************************************************)
(* VelocityEstimator.initialize_gravity                                    *)
(***************************************************************************)
\* sum(s.c for s in samples): 0 + s1.c + s2.c + ..., left to right
RECURSIVE SumOf(_, _)
SumOf(samples, c) ==
    IF Len(samples) = 0
    THEN Zero
    ELSE Add(SumOf(SubSeq(samples, 1, Len(samples) - 1), c),
             samples[Len(samples)][c])

Average(samples) ==
    Vec(DivInt(SumOf(samples, "x"), Len(samples)),
        DivInt(SumOf(samples, "y"), Len(samples)),
        DivInt(SumOf(samples, "z"), Len(samples)))

\* a variant that waits for more than `samples` readings
initialize_gravity_late(m, e, accel, samples) ==
    LET self      == m.est[e]
        appended  == Append(m.lists[self.init_samples], accel)
        lists1    == [m.lists EXCEPT ![self.init_samples] = appended]
        self1     == IF Len(appended) > samples
                     THEN [self EXCEPT !.gravity_offset = Some(Average(appended)),
                                       !.is_initialized = TRUE]
                     ELSE self
    IN  [est    |-> [m.est EXCEPT ![e] = self1],
         vecs   |-> m.vecs,
         lists  |-> lists1,
         result |-> self1.is_initialized]

\* append the reading; with `samples` readings held, set gravity_offset to
\* their average and is_initialized to True; return is_initialized
initialize_gravity(m, e, accel, samples) ==
    LET self      == m.est[e]
        appended  == Append(m.lists[self.init_samples], accel)
        lists1    == [m.lists EXCEPT ![self.init_samples] = appended]
        self1     == IF Len(appended) >= samples
                     THEN [self EXCEPT !.gravity_offset = Some(Average(appended)),
                                       !.is_initialized = TRUE]
                     ELSE self
    IN  [est    |-> [m.est EXCEPT ![e] = self1],
         vecs   |-> m.vecs,
         lists  |-> lists1,
         result |-> self1.is_initialized]

(***************************************************************************)
(* VelocityEstimator._remove_gravity                                       *)
(***************************************************************************)
\* a variant with the sign of the offset wrong
remove_gravity_added(self, accel) ==
    LET g == self.gravity_offset[1]
    IN  Vec(Add(accel.x, g.x), Add(accel.y, g.y), Add(accel.z, g.z))

remove_gravity(self, accel) ==
    LET g == self.gravity_offset[1]
    IN  Vec(Sub(accel.x, g.x), Sub(accel.y, g.y), Sub(accel.z, g.z))

(***************************************************************************)
(* VelocityEstimator.update                                                *)
(***************************************************************************)
\* Python's min(a, b) and max(a, b): the first argument unless the second
\* is strictly smaller (larger)
pymin(a, b) == IF Less(b, a) THEN b ELSE a

pymax(a, b) == IF Less(a, b) THEN b ELSE a

\* delta_v = (accel_corrected + prev_accel) / 2.0 * dt
delta_v(corrected, prev, dt) ==
    Vec(Mul(DivInt(Add(corrected.x, prev.x), 2), dt),
        Mul(DivInt(Add(corrected.y, prev.y), 2), dt),
        Mul(DivInt(Add(corrected.z, prev.z), 2), dt))

\* self.velocity += delta_v
integrate(v, corrected, prev, dt) ==
    LET d == delta_v(corrected, prev, dt)
    IN  Vec(Add(v.x, d.x), Add(v.y, d.y), Add(v.z, d.z))

\* a variant without the decay
apply_decay_off(v) == v

\* self.velocity *= decay
apply_decay(v) == Vec(Mul(v.x, DECAY), Mul(v.y, DECAY), Mul(v.z, DECAY))

\* a variant without the limit
limit_off(v) == v

\* self.velocity = max(-max_vel, min(max_vel, self.velocity))
limit(v) ==
    Vec(pymax(Neg(V_MAX), pymin(V_MAX, v.x)),
        pymax(Neg(V_MAX), pymin(V_MAX, v.y)),
        pymax(Neg(V_MAX), pymin(V_MAX, v.z)))

\* a variant that decays before it integrates
step_decay_first(v, corrected, prev_accel, dt) ==
    LET v1 == apply_decay(v)
    IN  limit(IF prev_accel # None
              THEN integrate(v1, corrected, prev_accel[1], dt)
              ELSE v1)

\* the velocity arithmetic of one calibrated call, in the order of the code:
\* integrate (when prev_accel is set), decay, limit
step(v, corrected, prev_accel, dt) ==
    LET v1 == IF prev_accel # None
              THEN integrate(v, corrected, prev_accel[1], dt)
              ELSE v
    IN  limit(apply_decay(v1))

\* update from "self.sample_count += 1" on: the calibrated path
estimate(m, e, raw_accel, dt) ==
    LET self      == m.est[e]
        corrected == remove_gravity(self, raw_accel)
        v         == step(m.vecs[self.velocity], corrected, self.prev_accel, dt)
        self1     == [self EXCEPT !.sample_count = @ + 1,
                                  !.prev_accel = Some(corrected)]
    IN  [est    |-> [m.est EXCEPT ![e] = self1],
         vecs   |-> [m.vecs EXCEPT ![self.velocity] = v],
         lists  |-> m.lists,
         ret    |-> Fresh(v),
         raised |-> FALSE]

\* a variant whose calibration-completing call falls through to the estimate
update_fallthrough(m, e, raw_accel, dt) ==
    IF ~m.est[e].is_initialized
    THEN LET r == initialize_gravity(m, e, raw_accel, N_CAL)
         IN  IF r.result
             THEN estimate(r, e, raw_accel, dt)
             ELSE [est |-> r.est, vecs |-> r.vecs, lists |-> r.lists,
                   ret |-> Fresh(ZeroVec), raised |-> FALSE]
    ELSE estimate(m, e, raw_accel, dt)

\* a variant without the is_initialized test: every call calibrates again
update_recalibrate(m, e, raw_accel, dt) ==
    LET r == initialize_gravity(m, e, raw_accel, N_CAL)
    IN  IF ~m.est[e].is_initialized
        THEN [est |-> r.est, vecs |-> r.vecs, lists |-> r.lists,
              ret |-> IF r.result THEN Ref(r.est[e].velocity) ELSE Fresh(ZeroVec),
              raised |-> FALSE]
        ELSE estimate(r, e, raw_accel, dt)

\* update: while not calibrated, hand the sample to initialize_gravity and
\* return self.velocity itself (calibration just completed) or a new zero
\* vector; once calibrated, estimate.  No path raises.
update(m, e, raw_accel, dt) ==
    IF ~m.est[e].is_initialized
    THEN LET r == initialize_gravity(m, e, raw_accel, N_CAL)
         IN  [est    |-> r.est,
              vecs   |-> r.vecs,
              lists  |-> r.lists,
              ret    |-> IF r.result
                         THEN Ref(r.est[e].velocity)
                         ELSE Fresh(ZeroVec),
              raised |-> FALSE]
    ELSE estimate(m, e, raw_accel, dt)

(***************************************************************************)
(* The callers' inputs.                                                    *)
(***************************************************************************)
\* a device at rest, gravity along z
AtRest == Vec(Zero, Zero, Rat(49, 5))
\* a device held tilted
Tilted == Vec(Zero, Rat(5, 1), Rat(8, 1))
\* the device at rest pushed with one unit of acceleration along x
PushX == Vec(Rat(1, 1), Zero, Rat(49, 5))

\* tick lengths: 100 Hz, a long tick, and a tick of no length
Dts == {Rat(1, 100), Rat(4, 1), Zero}

\* what the driving loop may feed estimator e: a still or tilted device
\* while it calibrates; afterwards a push, a tilt, or exactly the offset
\* the estimator computed
Inputs(e) ==
    IF est[e].is_initialized
    THEN {PushX, Tilted, est[e].gravity_offset[1]}
    ELSE {AtRest, Tilted}

(***************************************************************************)
(* The state machine.                                                      *)
(***************************************************************************)
Machine == [est |-> est, vecs |-> vecs, lists |-> lists]

\* the fields of estimator e in machine state m, heap objects read through
View(m, e) ==
    [velocity       |-> m.vecs[m.est[e].velocity],
     prev_accel     |-> m.est[e].prev_accel,
     is_initialized |-> m.est[e].is_initialized,
     sample_count   |-> m.est[e].sample_count,
     gravity_offset |-> m.est[e].gravity_offset,
     init_samples   |-> m.lists[m.est[e].init_samples]]

\* last[e] before the first call on e
NoCall(e) ==
    [dt |-> Zero, raised |-> FALSE,
     before |-> [velocity |-> ZeroVec, prev_accel |-> Some(ZeroVec),
                 is_initialized |-> FALSE, sample_count |-> 0,
                 gravity_offset |-> None, init_samples |-> <<>>],
     after  |-> [velocity |-> ZeroVec, prev_accel |-> Some(ZeroVec),
                 is_initialized |-> FALSE, sample_count |-> 0,
                 gravity_offset |-> None, init_samples |-> <<>>]]

EstimatorsInit ==
    /\ est = [e \in Ids |-> VelocityEstimator(e)]
    /\ vecs = [a \in {VelocityAddr(e) : e \in Ids} |-> ZeroVec]
    /\ lists = [a \in {InitSamplesAddr(e) : e \in Ids} |-> <<>>]
    /\ calls = [e \in Ids |-> 0]
    /\ log = [e \in Ids |-> <<>>]
    /\ last = [e \in Ids |-> NoCall(e)]

TotalCalls == calls["L"] + calls["R"]

\* the sums of one integration step stay within the integers of the checker
Fits(e, raw, dt) ==
    IF ~est[e].is_initialized
    THEN TRUE
    ELSE LET self == est[e]
             v    == vecs[self.velocity]
             d    == delta_v(remove_gravity(self, raw), self.prev_accel[1], dt)
         IN  \A c \in {"x", "y", "z"} : LCM(v[c][2], d[c][2]) <= MaxDen

\* the effect r of one call  est_e.update(raw, dt).  log[e] keeps, per call
\* on e, the sample, the returned handle and what the caller read from it on
\* return (seen); last[e] keeps, of the latest call on e, dt, whether it
\* raised, and the estimator's fields before and after it
Call(e, raw, dt, r) ==
    /\ est' = r.est
    /\ vecs' = r.vecs
    /\ lists' = r.lists
    /\ calls' = [calls EXCEPT ![e] = @ + 1]
    /\ log' = [log EXCEPT ![e] =
                  Append(@, [raw |-> raw, ret |-> r.ret,
                             seen |-> Read(r, r.ret)])]
    /\ last' = [last EXCEPT ![e] =
                   [dt |-> dt, raised |-> r.raised,
                    before |-> View(Machine, e), after |-> View(r, e)]]

\* one call  est_e.update(raw, dt)  by a driving loop
Update(e, raw, dt) ==
    /\ TotalCalls < MaxCalls
    /\ Fits(e, raw, dt)
    /\ \E r \in {update(Machine, e, raw, dt)} : Call(e, raw, dt, r)
    /\ UNCHANGED plotvars

Next == \E e \in Ids : \E dt \in Dts : \E raw \in Inputs(e) : Update(e, raw, dt)

(***************************************************************************)
(* plot_velocity.VelocityPlotter.  Clock values are whole numbers of a     *)
(* clock unit; one sample period (self.dt) is TickUnits of them.           *)
(***************************************************************************)
\* sample_rate, the constructor's argument
SampleRate == 20
\* self.dt = 1.0 / sample_rate, in clock units
TickUnits == 2
\* time.sleep(0.1) of the exception handler, in clock units
ErrSleepUnits == 4
\* duration, the constructor's argument, in clock units
PlotDuration == 7

\* self.dt as update receives it, in seconds
PlotDt == Rat(1, SampleRate)

\* self.max_samples = int(duration * sample_rate)
max_samples == PlotDuration \div TickUnits

\* max_accel and max_gyro of teleop.normalize_accel / normalize_gyro
MAX_ACCEL == 6000
MAX_GYRO == 5000
\* max_gyro_rad_s = 34.9
MAX_GYRO_RAD_S == <<349, 10>>

\* teleop.normalize_accel: max(-1.0, min(1.0, v / max_accel)) per component
normalize_accel(a) ==
    Vec(pymax(Rat(-1, 1), pymin(Rat(1, 1), Rat(a.x, MAX_ACCEL))),
        pymax(Rat(-1, 1), pymin(Rat(1, 1), Rat(a.y, MAX_ACCEL))),
        pymax(Rat(-1, 1), pymin(Rat(1, 1), Rat(a.z, MAX_ACCEL))))

\* teleop.normalize_gyro
normalize_gyro(g) ==
    Vec(pymax(Rat(-1, 1), pymin(Rat(1, 1), Rat(g.x, MAX_GYRO))),
        pymax(Rat(-1, 1), pymin(Rat(1, 1), Rat(g.y, MAX_GYRO))),
        pymax(Rat(-1, 1), pymin(Rat(1, 1), Rat(g.z, MAX_GYRO))))

\* what JoyCon.get_status() may return: a report of a still controller, one
\* of a moving controller, and a report to_attr_status cannot convert (a
\* key is missing)
StatusStill ==
    [wellformed |-> TRUE, accel |-> Vec(0, 0, 4200), gyro |-> Vec(0, 0, 0)]
StatusMoving ==
    [wellformed |-> TRUE, accel |-> Vec(9000, -600, 3000),
     gyro |-> Vec(2500, -10000, 0)]
StatusMalformed ==
    [wellformed |-> FALSE, accel |-> Vec(0, 0, 0), gyro |-> Vec(0, 0, 0)]

Statuses == {StatusStill, StatusMoving, StatusMalformed}

\* the deques of __init__
SeriesNames ==
    {"timestamps",
     "left_vel_x", "left_vel_y", "left_vel_z",
     "right_vel_x", "right_vel_y", "right_vel_z",
     "left_gyro_x", "left_gyro_y", "left_gyro_z",
     "right_gyro_x", "right_gyro_y", "right_gyro_z"}

\* deque(maxlen=maxlen).append(x): the oldest item is dropped when full
deque_append(q, x, maxlen) ==
    IF Len(q) + 1 > maxlen THEN Tail(Append(q, x)) ELSE Append(q, x)

\* time.sleep(d) begun at clock value t: returns after d or later
sleep(t, d) == {t + d, t + d + 1}

\* a variant of the handler that does not wait
error_backoff_none(t) == {t}

\* the handler of "except Exception": time.sleep(0.1)
error_backoff(t) == sleep(t, ErrSleepUnits)

\* a variant that handles one controller after the other
TickOrder_per_device ==
    <<"read_l", "convert_l", "update_l", "read_r", "convert_r", "update_r",
      "store", "sleep">>

\* the statements of the try block in program order: both reads, both
\* conversions (to_attr_status, normalize_accel, normalize_gyro), both
\* updates, the appends, the sleep
TickOrder ==
    <<"read_l", "read_r", "convert_l", "convert_r", "update_l", "update_r",
      "store", "sleep">>

\* the locals of collect_data between two iterations
NoLocals ==
    [current_time |-> 0,
     raw   |-> [e \in Ids |-> StatusMalformed],
     accel |-> [e \in Ids |-> ZeroVec],
     gyro  |-> [e \in Ids |-> ZeroVec],
     vel   |-> [e \in Ids |-> Fresh(ZeroVec)]]

\* what an iteration can change: the calls made and the series
Progress == [calls |-> calls, series |-> series]

\* VelocityPlotter.__init__ apart from the estimators
PlotterInit ==
    /\ pc = "new"
    /\ ip = 0
    /\ collecting = FALSE
    /\ start_time = None
    /\ now = 0
    /\ loc = NoLocals
    /\ series = [n \in SeriesNames |-> <<>>]
    /\ outcome = "none"
    /\ tick0 = [calls |-> [e \in Ids |-> 0],
                series |-> [n \in SeriesNames |-> <<>>]]

Init == EstimatorsInit /\ PlotterInit

Spec == Init /\ [][Next]_vars

\* current_time as the loop head computes it
Elapsed == now - start_time[1]

Stage == IF pc = "tick" THEN TickOrder[ip] ELSE "none"

\* the stage of the try block that does "read", "convert" or "update" for
\* controller d
StageOf(what, d) == IF d = "L" THEN what \o "_l" ELSE what \o "_r"

\* collect_data up to the loop: collecting = True, start_time = time.time()
Start ==
    /\ pc = "new"
    /\ collecting' = TRUE
    /\ start_time' = Some(now)
    /\ pc' = "head"
    /\ UNCHANGED <<estvars, ip, now, loc, series, outcome, tick0>>

\* while self.collecting: current_time = time.time() - start_time; stop when
\* current_time >= duration
LoopHead ==
    /\ pc = "head"
    /\ IF ~collecting
       THEN /\ pc' = "done"
            /\ UNCHANGED <<ip, collecting, loc, tick0>>
       ELSE IF Elapsed >= PlotDuration
       THEN /\ collecting' = FALSE
            /\ pc' = "done"
            /\ UNCHANGED <<ip, loc, tick0>>
       ELSE /\ pc' = "tick"
            /\ ip' = 1
            /\ loc' = [loc EXCEPT !.current_time = Elapsed]
            /\ tick0' = Progress
            /\ UNCHANGED collecting
    /\ UNCHANGED <<estvars, start_time, now, series, outcome>>

\* an exception in the try block: control goes to "except Exception"
Raise ==
    /\ pc' = "except"
    /\ ip' = 0
    /\ UNCHANGED <<estvars, collecting, start_time, now, loc, series, outcome,
                   tick0>>

\* raw_l = self.jcl.get_status() / raw_r = self.jcr.get_status(): a report,
\* or an exception of the device layer
ReadStatus(d) ==
    /\ Stage = StageOf("read", d)
    /\ \/ \E raw \in Statuses :
              /\ loc' = [loc EXCEPT !.raw[d] = raw]
              /\ ip' = ip + 1
              /\ UNCHANGED <<estvars, pc, collecting, start_time, now, series,
                             outcome, tick0>>
       \/ Raise

\* to_attr_status, normalize_accel and normalize_gyro of one controller
Convert(d) ==
    /\ Stage = StageOf("convert", d)
    /\ IF loc.raw[d].wellformed
       THEN /\ loc' = [loc EXCEPT
                         !.accel[d] = normalize_accel(loc.raw[d].accel),
                         !.gyro[d] = normalize_gyro(loc.raw[d].gyro)]
            /\ ip' = ip + 1
            /\ UNCHANGED <<estvars, pc, collecting, start_time, now,
                           series, outcome, tick0>>
       ELSE Raise

\* left_vel = self.left_velocity_estimator.update(left_accel, self.dt), and
\* the same on the right
UpdateDevice(d) ==
    /\ Stage = StageOf("update", d)
    /\ \E r \in {update(Machine, d, loc.accel[d], PlotDt)} :
           /\ Call(d, loc.accel[d], PlotDt, r)
           /\ loc' = [loc EXCEPT !.vel[d] = r.ret]
    /\ ip' = ip + 1
    /\ UNCHANGED <<pc, collecting, start_time, now, series, outcome, tick0>>

\* the thirteen appends
Store ==
    /\ Stage = "store"
    /\ LET lv == Read(Machine, loc.vel["L"])
           rv == Read(Machine, loc.vel["R"])
           item ==
               [n \in SeriesNames |->
                   CASE n = "timestamps"   -> loc.current_time
                     [] n = "left_vel_x"   -> lv.x
                     [] n = "left_vel_y"   -> lv.y
                     [] n = "left_vel_z"   -> lv.z
                     [] n = "right_vel_x"  -> rv.x
                     [] n = "right_vel_y"  -> rv.y
                     [] n = "right_vel_z"  -> rv.z
                     [] n = "left_gyro_x"  -> Mul(loc.gyro["L"].x, MAX_GYRO_RAD_S)
                     [] n = "left_gyro_y"  -> Mul(loc.gyro["L"].y, MAX_GYRO_RAD_S)
                     [] n = "left_gyro_z"  -> Mul(loc.gyro["L"].z, MAX_GYRO_RAD_S)
                     [] n = "right_gyro_x" -> Mul(loc.gyro["R"].x, MAX_GYRO_RAD_S)
                     [] n = "right_gyro_y" -> Mul(loc.gyro["R"].y, MAX_GYRO_RAD_S)
                     [] n = "right_gyro_z" -> Mul(loc.gyro["R"].z, MAX_GYRO_RAD_S)]
       IN  series' = [n \in SeriesNames |->
                         deque_append(series[n], item[n], max_samples)]
    /\ ip' = ip + 1
    /\ UNCHANGED <<estvars, pc, collecting, start_time, now, loc, outcome, tick0>>

\* time.sleep(self.dt), the end of an iteration that stored a sample
Sleep ==
    /\ Stage = "sleep"
    /\ now' \in sleep(now, TickUnits)
    /\ pc' = "head"
    /\ ip' = 0
    /\ loc' = NoLocals
    /\ outcome' = "stored"
    /\ UNCHANGED <<estvars, collecting, start_time, series, tick0>>

\* except Exception: report, wait, and go round the loop again
Except ==
    /\ pc = "except"
    /\ now' \in error_backoff(now)
    /\ pc' = "head"
    /\ loc' = NoLocals
    /\ outcome' = "skipped"
    /\ UNCHANGED <<estvars, ip, collecting, start_time, series, tick0>>

\* Ctrl-C.  Inside the try block (the elapsed-time check included) "except
\* KeyboardInterrupt" clears collecting and leaves the loop; before the loop,
\* at the loop condition and in the handler of "except Exception" it leaves
\* collect_data as an exception
Interrupt ==
    /\ pc \in {"new", "head", "tick", "except"}
    /\ \/ /\ pc \in {"head", "tick"}
          /\ collecting' = FALSE
          /\ pc' = "done"
       \/ /\ pc \in {"new", "head", "except"}
          /\ pc' = "raised"
          /\ UNCHANGED collecting
    /\ ip' = 0
    /\ UNCHANGED <<estvars, start_time, now, loc, series, outcome, tick0>>

\* the steps of the program, and the user's
ProgramStep ==
    \/ Start
    \/ LoopHead
    \/ \E d \in Ids : ReadStatus(d)
    \/ \E d \in Ids : Convert(d)
    \/ \E d \in Ids : UpdateDevice(d)
    \/ Store
    \/ Sleep
    \/ Except

PlotNext == ProgramStep \/ Interrupt

SpecPlot == Init /\ [][PlotNext]_vars

\* collect_data has not been left
Running == pc \in {"new", "head", "tick", "except"}

\* collect_data has been left, by the end of the loop or by an exception
Left == pc \in {"done", "raised"}

\* the program counter moves by a step of the program: anything but Ctrl-C,
\* which alone leads to "raised", or to "done" from inside a tick or before
\* the duration has run out
Proceeds ==
    /\ Running
    /\ pc' \in {"head", "tick", "except", "done"}
    /\ ip' \in 0..Len(TickOrder)
    /\ pc' = "done" => pc = "head" /\ Elapsed >= PlotDuration

\* The interpreter keeps running the program: time.sleep returns, get_status
\* returns or raises, update returns.  Every step of ProgramStep moves the
\* program counter <<pc, ip>> and some step of it is possible as long as
\* collect_data is Running, so this is weak fairness of ProgramStep, stated
\* on the program counter.  Nothing obliges the user to press Ctrl-C.
SpecPlotFair == Init /\ [][PlotNext]_vars /\ WF_<<pc, ip>>(Proceeds)

(***************************************************************************)
(* Vocabulary of the properties.                                           *)
(***************************************************************************)
Components == {"x", "y", "z"}

\* the velocity estimator e holds now
Velocity(e) == vecs[est[e].velocity]

\* the sample passed to the i-th call on e
RawOf(e, i) == log[e][i].raw

\* -2.0 <= every component <= 2.0
InRange(v) ==
    \A c \in Components : ~Less(V_MAX, v[c]) /\ ~Less(v[c], Neg(V_MAX))

Positive(q) == q[1] > 0

\* clamp(q, -2.0, 2.0)
Clamp(q) ==
    IF Less(V_MAX, q) THEN V_MAX ELSE IF Less(q, Neg(V_MAX)) THEN Neg(V_MAX) ELSE q

\* the component-wise arithmetic mean of three samples
MeanOf3(a, b, c) ==
    [k \in Components |-> Mul(Add(Add(a[k], b[k]), c[k]), <<1, 3>>)]

\* the calls on e after the calibration-completing one
PostCalls(e) == (N_CAL + 1) .. calls[e]

(***************************************************************************)
(* C1.  After every update call every component of the stored velocity     *)
(* and of the vector the call returned lies in [-2.0, +2.0], calibration   *)
(* calls included; read when it was returned or read later.                *)
(***************************************************************************)
C1_VelocityBounded ==
    \A e \in Ids :
        /\ InRange(Velocity(e))
        /\ \A i \in 1 .. Len(log[e]) :
               /\ InRange(log[e][i].seen)
               /\ InRange(Read(Machine, log[e][i].ret))

\* a call with dt > 0 on a calibrated estimator that the limit cut at both ends
C1_Witness ==
    \E e \in Ids :
        /\ last[e].before.is_initialized
        /\ Positive(last[e].dt)
        /\ \E c \in Components : Velocity(e)[c] = V_MAX
        /\ \E c \in Components : Velocity(e)[c] = Neg(V_MAX)

(***************************************************************************)
(* C2.  Each of the first N_CAL calls on a fresh estimator, the one that   *)
(* completes calibration included, returns the zero vector and leaves the  *)
(* stored velocity, the previous corrected acceleration and the sample     *)
(* counter as they were, whatever the sample and dt.                       *)
(***************************************************************************)
C2_CalibrationCallsInert ==
    \A e \in Ids :
        /\ \A i \in 1 .. Len(log[e]) : i <= N_CAL => log[e][i].seen = ZeroVec
        /\ calls[e] \in 1 .. N_CAL =>
               /\ last[e].after.velocity = last[e].before.velocity
               /\ last[e].after.prev_accel = last[e].before.prev_accel
               /\ last[e].after.sample_count = last[e].before.sample_count
               /\ last[e].after.velocity = ZeroVec
               /\ last[e].after.sample_count = 0

\* the calibration-completing call, made with a sample that differs from the
\* offset it produces and with a tick of positive length
C2_Witness ==
    \E e \in Ids :
        /\ calls[e] = N_CAL
        /\ est[e].is_initialized
        /\ Positive(last[e].dt)
        /\ Some(RawOf(e, N_CAL)) # est[e].gravity_offset

C4_UpdateFormula ==
    \A e \in Ids :
        (last[e].before.is_initialized /\ Positive(last[e].dt)) =>
            LET b         == last[e].before
                raw       == RawOf(e, calls[e])
                g         == b.gravity_offset[1]
                corrected == [k \in Components |-> Sub(raw[k], g[k])]
                prev      == b.prev_accel[1]
                expected  ==
                    [k \in Components |->
                        Clamp(Mul(DECAY,
                                  Add(b.velocity[k],
                                      Mul(Mul(Add(corrected[k], prev[k]), <<1, 2>>),
                                          last[e].dt))))]
            IN  /\ last[e].after.velocity = expected
                /\ last[e].after.prev_accel = Some(corrected)
                /\ log[e][calls[e]].seen = expected
                /\ calls[e] = N_CAL + 1 => prev = ZeroVec
                /\ ( /\ calls[e] = N_CAL + 1
                     /\ \A i \in 1 .. N_CAL : RawOf(e, i) = AtRest
                     /\ raw = PushX
                     /\ last[e].dt = <<1, 100>> ) =>
                       log[e][calls[e]].seen = Vec(<<99, 20000>>, Zero, Zero)

\* the concrete scenario has run
C4_Witness ==
    \E e \in Ids :
        /\ calls[e] = N_CAL + 1
        /\ \A i \in 1 .. N_CAL : RawOf(e, i) = AtRest
        /\ RawOf(e, N_CAL + 1) = PushX
        /\ last[e].dt = <<1, 100>>
        /\ log[e][calls[e]].seen = Vec(<<99, 20000>>, Zero, Zero)

(***************************************************************************)
(* C5.  The vector returned by every update call is a snapshot: what the   *)
(* caller reads from the value returned by call i is, after any later      *)
(* call j, what it read immediately after call i.                          *)
(***************************************************************************)
C5_ReturnedIsSnapshot ==
    \A e \in Ids :
        \A i \in 1 .. Len(log[e]) :
            Read(Machine, log[e][i].ret) = log[e][i].seen

(***************************************************************************)
(* C6.  A calibrated estimator stays calibrated and keeps its gravity      *)
(* offset: a call on a calibrated estimator, with any sample and any dt,   *)
(* leaves is_initialized true and gravity_offset as it was, which is the   *)
(* value computed by the calibration-completing call.                      *)
(***************************************************************************)
C6_CalibrationIrreversible ==
    \A e \in Ids :
        /\ last[e].before.is_initialized =>
               /\ last[e].after.is_initialized
               /\ last[e].after.gravity_offset = last[e].before.gravity_offset
        /\ calls[e] > N_CAL =>
               /\ est[e].is_initialized
               /\ est[e].gravity_offset =
                      Some(Average(SubSeq([i \in 1 .. calls[e] |-> RawOf(e, i)],
                                          1, N_CAL)))

\* two calls after calibration, the latest with a sample other than the offset
C6_Witness ==
    \E e \in Ids :
        /\ calls[e] >= N_CAL + 2
        /\ last[e].before.is_initialized
        /\ Some(RawOf(e, calls[e])) # est[e].gravity_offset
        /\ Some(RawOf(e, calls[e] - 1)) # est[e].gravity_offset

(***************************************************************************)
(* C7.  A call on a calibrated estimator with dt <= 0 either signals an    *)
(* invalid-input error or leaves the stored velocity unchanged and returns *)
(* it unchanged.                                                           *)
(***************************************************************************)
C7_NonPositiveDtRejected ==
    \A e \in Ids :
        (last[e].before.is_initialized /\ ~Positive(last[e].dt)) =>
            \/ last[e].raised
            \/ /\ last[e].after.velocity = last[e].before.velocity
               /\ log[e][calls[e]].seen = last[e].before.velocity

(***************************************************************************)
(* C8.  Decay only.  As claimed: on a tick (dt > 0) of a calibrated        *)
(* estimator that holds a nonzero velocity and is fed a sample equal to    *)
(* the gravity offset, the first such tick included, the returned velocity *)
(* is DECAY times the velocity returned by the previous tick.              *)
(***************************************************************************)
C8_DecayFromFirstTick ==
    \A e \in Ids :
        ( /\ calls[e] > N_CAL + 1
          /\ Positive(last[e].dt)
          /\ last[e].before.velocity # ZeroVec
          /\ Some(RawOf(e, calls[e])) = est[e].gravity_offset ) =>
            \A k \in Components :
                log[e][calls[e]].seen[k] = Mul(DECAY, log[e][calls[e] - 1].seen[k])

(***************************************************************************)
(* C8, amended.  On every tick after the first of a run of ticks fed the   *)
(* gravity offset (the sample of the tick before was the gravity offset    *)
(* too), the returned velocity is DECAY times the velocity returned by the *)
(* previous tick, component-wise, for any dt.                              *)
(***************************************************************************)
C8_DecayFromSecondTick ==
    \A e \in Ids :
        \A i \in PostCalls(e) :
            ( /\ i - 1 \in PostCalls(e)
              /\ Some(RawOf(e, i)) = est[e].gravity_offset
              /\ Some(RawOf(e, i - 1)) = est[e].gravity_offset ) =>
                \A k \in Components :
                    log[e][i].seen[k] = Mul(DECAY, log[e][i - 1].seen[k])

\* a nonzero velocity, then two ticks of positive length fed the offset
C8_Witness ==
    \E e \in Ids :
        /\ calls[e] = N_CAL + 3
        /\ Some(RawOf(e, calls[e])) = est[e].gravity_offset
        /\ Some(RawOf(e, calls[e] - 1)) = est[e].gravity_offset
        /\ Positive(last[e].dt)
        /\ \A k \in Components :
               /\ log[e][calls[e] - 1].seen[k] # Zero
               /\ log[e][calls[e] - 1].seen[k] # V_MAX
               /\ log[e][calls[e] - 1].seen[k] # Neg(V_MAX)

(***************************************************************************)
(* C9.  The two estimators share no mutable state: a call on one leaves    *)
(* every field of the other (velocity, prev_accel, gravity_offset,         *)
(* init_samples, is_initialized, sample_count) as it was.                  *)
(***************************************************************************)
C9_NoSharedState ==
    [][\A e \in Ids :
           calls'[e] = calls[e] =>
               View([est |-> est', vecs |-> vecs', lists |-> lists'], e)
                   = View(Machine, e)]_vars

\* both estimators have been driven, interleaved, and hold different states
C9_Witness ==
    /\ est["L"].is_initialized
    /\ calls["L"] > N_CAL
    /\ calls["R"] >= 2
    /\ Velocity("L") # ZeroVec
    /\ View(Machine, "L") # View(Machine, "R")

(***************************************************************************)
(* C10.  After calibration, feeding on every tick a sample equal to the    *)
(* computed gravity offset returns the zero vector on every tick and keeps *)
(* the stored velocity at zero, for any number of ticks and any dt.        *)
(***************************************************************************)
C10_AtRestStaysZero ==
    \A e \in Ids :
        (\A i \in PostCalls(e) : Some(RawOf(e, i)) = est[e].gravity_offset) =>
            /\ Velocity(e) = ZeroVec
            /\ \A i \in 1 .. Len(log[e]) :
                   /\ log[e][i].seen = ZeroVec
                   /\ Read(Machine, log[e][i].ret) = ZeroVec

\* two ticks of positive length fed the offset of a mixed calibration
C10_Witness ==
    \E e \in Ids :
        /\ calls[e] >= N_CAL + 2
        /\ RawOf(e, 1) # RawOf(e, 2)
        /\ Positive(last[e].dt)
        /\ \A i \in PostCalls(e) : Some(RawOf(e, i)) = est[e].gravity_offset

(***************************************************************************)
(* C13.  In every state reached by update calls on a fresh estimator the   *)
(* readiness flag agrees with the calibration data: is_initialized holds   *)
(* iff gravity_offset is set iff exactly N_CAL samples are held in         *)
(* init_samples; while it does not hold fewer than N_CAL are held; never   *)
(* more than N_CAL are held; and sample_count is the number of update      *)
(* calls made after the one that completed calibration.                    *)
(***************************************************************************)
C13_ReadinessAgrees ==
    \A e \in Ids :
        LET held == Len(lists[est[e].init_samples])
        IN  /\ est[e].is_initialized <=> est[e].gravity_offset # None
            /\ est[e].is_initialized <=> held = N_CAL
            /\ ~est[e].is_initialized => held < N_CAL
            /\ held <= N_CAL
            /\ held = IF calls[e] < N_CAL THEN calls[e] ELSE N_CAL
            /\ est[e].sample_count =
                   IF calls[e] > N_CAL THEN calls[e] - N_CAL ELSE 0

\* one estimator two calls past calibration, the other still collecting
C13_Witness ==
    \E e \in Ids : \E o \in Ids :
        /\ est[e].is_initialized
        /\ est[e].sample_count = 2
        /\ ~est[o].is_initialized
        /\ Len(lists[est[o].init_samples]) = 1

(***************************************************************************)
(* C11.  In collect_data a tick on which reading or converting either      *)
(* controller's status fails is skipped as a whole: when control reaches   *)
(* the exception handler, and when the loop is back at its head after it,  *)
(* neither estimator has been updated and no series has grown since the    *)
(* tick began, and the loop is still collecting, so that it tries again.   *)
(* Hence at every loop-iteration boundary both estimators have received    *)
(* the same number of update calls and all thirteen series have one        *)
(* length, the number of stored ticks capped at max_samples.               *)
(***************************************************************************)
C11_FailedTickSkipped ==
    /\ pc = "except" => Progress = tick0 /\ collecting
    /\ (pc = "head" /\ outcome = "skipped") => Progress = tick0 /\ collecting
    /\ pc = "head" =>
           /\ calls["L"] = calls["R"]
           /\ \A n \in SeriesNames :
                  /\ Len(series[n]) <= max_samples
                  /\ Len(series[n]) =
                         IF calls["L"] < max_samples THEN calls["L"]
                                                     ELSE max_samples

\* the loop at its head with two stored samples, taken at 0 and at 6: the
\* tick between them (at 2) was skipped and the loop tried again
C11_Witness ==
    /\ pc = "head"
    /\ outcome = "stored"
    /\ series["timestamps"] = <<0, TickUnits + ErrSleepUnits>>
    /\ calls["L"] = 2
    /\ calls["R"] = 2

(***************************************************************************)
(* C12.  collect_data terminates, provided the interpreter keeps running   *)
(* and every sleep lets the clock advance: eventually the loop is left.    *)
(* The elapsed-time check stands at the head of every iteration: no        *)
(* iteration begins once the elapsed time has reached the duration, and    *)
(* the loop head then leaves the loop with collecting = False.  After the  *)
(* loop is left neither estimator is updated again.  This includes the     *)
(* runs in which every status read raises.                                 *)
(***************************************************************************)
C12_CollectionTerminates ==
    /\ <>Left
    /\ [][pc = "head" /\ Elapsed >= PlotDuration
              => Left' /\ (pc' = "done" => ~collecting')]_vars
    /\ [][pc' = "tick" /\ pc # "tick"
              => pc = "head" /\ Elapsed' < PlotDuration]_vars
    /\ [](pc = "done" => ~collecting)
    /\ [][Left => calls' = calls /\ Left']_vars

\* the duration has run out, the loop has been left with collecting = False,
\* and no tick ever got as far as an update or an append: every one was
\* skipped
C12_Witness ==
    /\ pc = "done"
    /\ ~collecting
    /\ Elapsed >= PlotDuration
    /\ outcome = "skipped"
    /\ calls["L"] = 0
    /\ calls["R"] = 0
    /\ series["timestamps"] = <<>>

====
